---- MODULE Spec2Model ----
(***************************************************************************)
(* Model of streamlit_app.py: the WhoisJSON API explorer.  One script run  *)
(* of main() loads the API key, stops when it is absent, and otherwise     *)
(* performs the operation selected in the sidebar: a single WHOIS, DNS or  *)
(* SSL lookup, or a batch of lookups over the lines of a text area.        *)
(* Strings whose contents the code builds or inspects (the error messages *)
(* of a batch) are sequences of one-character strings.                     *)
(***************************************************************************)
EXTENDS Integers, Sequences, FiniteSets, TLC

VARIABLES
    secrets,          \* st.secrets: the configured whoisjson.api_key, or Missing
    cache,            \* the st.cache_resource slot of get_api_key
    api_key,          \* main's api_key
    pc,               \* position of the script run
    ui,               \* the message the run shows for its branch
    sent,             \* the GET requests of the run, in order
    record_type,      \* nslookup's record_type argument in the run
    domains,          \* the parsed domain list of the batch
    batch_operation,  \* the operation selected for the batch
    idx,              \* the loop index of the batch
    results,          \* the results dict of the batch
    status,           \* the lines written to the status container
    progress,         \* the values given to progress_bar.progress
    outcomes,         \* what the client did at each position
    processed,        \* the count named by the completion message
    successful,       \* the "Successful" metric
    failed            \* the "Failed" metric

vars == <<secrets, cache, api_key, pc, ui, sent, record_type, domains,
          batch_operation, idx, results, status, progress, outcomes,
          processed, successful, failed>>

\* Longest text area content, in lines, the model feeds to a batch.
MaxLines == 3

----------------------------------------------------------------------------
\* Values

\* Python's None, and the marker of an empty st.cache_resource slot.
None == "<None>"
Unset == "<unset>"
\* st.secrets has no whoisjson.api_key entry.
Missing == "<missing>"

SecretStates == {Missing, "", "key-1"}

Names == {"a.com", "b.com"}

\* Lines a user can type in the text area.
Lines == {"", "  ", "a.com", " a.com ", "b.com"}

\* str.strip() on the lines above.
Strip(line) ==
    CASE line = "  " -> ""
      [] line = " a.com " -> "a.com"
      [] OTHER -> line

BatchOperations == {"WHOIS Lookup", "DNS Lookup", "SSL Certificate Check"}

RecordTypes == {"All Records", "A", "MX", "TXT", "CNAME", "NS", "PTR", "AAAA", "SOA"}

\* Python truthiness of a string-or-None value.
Truthy(v) == v # None /\ v # ""

----------------------------------------------------------------------------
\* Character strings

ERROR == <<"e", "r", "r", "o", "r">>
UNAVAILABLE == <<"u", "n", "a", "v", "a", "i", "l", "a", "b", "l", "e">>
NOT_FOUND == <<"n", "o", "t", " ", "f", "o", "u", "n", "d">>
TIMED_OUT == <<"t", "i", "m", "e", "d", " ", "o", "u", "t">>
HTTP_ == <<"H", "T", "T", "P", " ">>

Digits == <<"0", "1", "2", "3", "4", "5", "6", "7", "8", "9">>

\* str(n) for a natural number n.
RECURSIVE IntStr(_)
IntStr(n) ==
    IF n < 10 THEN <<Digits[n + 1]>>
    ELSE IntStr(n \div 10) \o <<Digits[(n % 10) + 1]>>

\* needle in haystack, for Python strings.
IsSubstring(needle, hay) ==
    \E i \in 0..(Len(hay) - Len(needle)) :
        \A j \in 1..Len(needle) : hay[i + j] = needle[j]

IsSuffix(p, s) ==
    /\ Len(p) <= Len(s)
    /\ \A j \in 1..Len(p) : s[Len(s) - Len(p) + j] = p[j]

----------------------------------------------------------------------------
\* JSON values: kind, the keys of a dict, the elements of a list, the
\* characters of a string (for a dict, of the value stored under "error").

JsonDict(keys, text) == [kind |-> "dict", keys |-> keys, items |-> {}, text |-> text]
JsonNull == [kind |-> "null", keys |-> {}, items |-> {}, text |-> <<>>]

\* results = {}
EmptyMap == [d \in {} |-> JsonNull]

\* Bodies response.json() can return on a 2xx response.
Payloads ==
    { JsonDict({"domain", "registrar"}, <<>>),
      JsonDict({"error"}, NOT_FOUND),
      JsonNull }

\* What one requests.get + raise_for_status + json() can do.
RespOk(p) == [kind |-> "ok", payload |-> p, code |-> 200, text |-> <<>>]
RespHttp(code, text) == [kind |-> "http", payload |-> JsonNull, code |-> code, text |-> text]
RespExc(msg) == [kind |-> "exc", payload |-> JsonNull, code |-> 0, text |-> msg]

Responses ==
    {RespOk(p) : p \in Payloads}
        \cup {RespHttp(503, UNAVAILABLE)}
        \cup {RespExc(TIMED_OUT)}

----------------------------------------------------------------------------
\* API helper functions

AuthHeader(key) == <<"Token=", key>>

Request(url, params, key) == [url |-> url, params |-> params, auth |-> AuthHeader(key)]

whois_request(domain, key) ==
    Request("/api/v1/whois", [k \in {"domain"} |-> domain], key)

nslookup_params_always_type(domain, rt) ==
    [k \in {"domain", "type"} |-> IF k = "domain" THEN domain ELSE rt]

\* params = {"domain": domain}, and "type" when a record type is asked for
nslookup_params(domain, rt) ==
    IF Truthy(rt) /\ rt # "All Records"
    THEN [k \in {"domain", "type"} |-> IF k = "domain" THEN domain ELSE rt]
    ELSE [k \in {"domain"} |-> domain]

nslookup_request(domain, key, rt) ==
    Request("/api/v1/nslookup", nslookup_params(domain, rt), key)

ssl_request(domain, key) ==
    Request("/api/v1/ssl", [k \in {"domain"} |-> domain], key)

----------------------------------------------------------------------------
\* Loading the key

\* get_api_key() behind st.cache_resource: the first result is kept.
get_api_key ==
    IF cache # Unset THEN cache
    ELSE IF secrets = Missing THEN None ELSE secrets

key_is_none(key) == key = None

\* `if not api_key: ... return`
key_absent(key) == ~Truthy(key)

Init ==
    /\ secrets \in SecretStates
    /\ cache = Unset
    /\ api_key = None
    /\ pc = "start"
    /\ ui = "none"
    /\ sent = <<>>
    /\ record_type = None
    /\ domains = <<>>
    /\ batch_operation = "WHOIS Lookup"
    /\ idx = 0
    /\ results = EmptyMap
    /\ status = <<>>
    /\ progress = <<>>
    /\ outcomes = <<>>
    /\ processed = 0
    /\ successful = 0
    /\ failed = 0

\* Positions at which a script run is over: main() returned or raised.
Terminal == {"stopped", "end", "done", "crashed"}

\* State a fresh script run starts from: the locals of the batch branch.
NoBatch ==
    /\ domains' = <<>>
    /\ batch_operation' = "WHOIS Lookup"
    /\ idx' = 0
    /\ results' = EmptyMap
    /\ status' = <<>>
    /\ progress' = <<>>
    /\ outcomes' = <<>>
    /\ processed' = 0
    /\ successful' = 0
    /\ failed' = 0

\* The except clauses of the single lookups.
SingleUi(resp) ==
    CASE resp.kind = "ok" -> "result"
      [] resp.kind = "http" -> "http_error"
      [] OTHER -> "error"

\* main() up to the return taken when no key is loaded.
MainNoKey ==
    /\ pc = "start"
    /\ key_absent(get_api_key)
    /\ cache' = get_api_key
    /\ api_key' = get_api_key
    /\ pc' = "stopped"
    /\ ui' = "no_key"
    /\ sent' = <<>>
    /\ record_type' = None
    /\ NoBatch
    /\ UNCHANGED secrets

\* A script run that takes one of the three single lookup branches.
SingleLookup(req, clicked, resp, rt) ==
    /\ pc = "start"
    /\ ~key_absent(get_api_key)
    /\ cache' = get_api_key
    /\ api_key' = get_api_key
    /\ IF clicked
       THEN sent' = <<req>> /\ ui' = SingleUi(resp) /\ record_type' = rt
       ELSE sent' = <<>> /\ ui' = "none" /\ record_type' = None
    /\ pc' = "end"
    /\ NoBatch
    /\ UNCHANGED secrets

WhoisLookup ==
    \E domain \in Names \cup {""}, lookup_btn \in BOOLEAN, resp \in Responses :
        SingleLookup(whois_request(domain, get_api_key),
                     lookup_btn /\ domain # "", resp, None)

DnsLookup ==
    \E domain \in Names \cup {""}, rt \in RecordTypes,
       lookup_btn \in BOOLEAN, resp \in Responses :
        SingleLookup(nslookup_request(domain, get_api_key, rt),
                     lookup_btn /\ domain # "", resp, rt)

SslCheck ==
    \E domain \in Names \cup {""}, check_btn \in BOOLEAN, resp \in Responses :
        SingleLookup(ssl_request(domain, get_api_key),
                     check_btn /\ domain # "", resp, None)

----------------------------------------------------------------------------
\* Batch operations

\* Text area contents: the lines between the newlines of the text.
Inputs == UNION {[1..n -> Lines] : n \in 1..MaxLines}

\* [d.strip() for d in domains_input.split('\n') if d.strip()]
ParseDomains(lines) ==
    LET kept == SelectSeq(lines, LAMBDA d : Strip(d) # "")
    IN  [i \in 1..Len(kept) |-> Strip(kept[i])]

\* The text is the empty string exactly when it is one empty line.
TextTruthy(lines) == ~(Len(lines) = 1 /\ lines[1] = "")

BatchStart ==
    \E lines \in Inputs, op \in BatchOperations, batch_btn \in BOOLEAN :
        /\ pc = "start"
        /\ ~key_absent(get_api_key)
        /\ cache' = get_api_key
        /\ api_key' = get_api_key
        /\ sent' = <<>>
        /\ record_type' = None
        /\ idx' = 0
        /\ results' = EmptyMap
        /\ status' = <<>>
        /\ progress' = <<>>
        /\ outcomes' = <<>>
        /\ processed' = 0
        /\ successful' = 0
        /\ failed' = 0
        /\ IF batch_btn /\ TextTruthy(lines)
           THEN IF ParseDomains(lines) = <<>>
                THEN /\ ui' = "warning"
                     /\ pc' = "end"
                     /\ domains' = <<>>
                     /\ batch_operation' = "WHOIS Lookup"
                ELSE /\ ui' = "processing"
                     /\ pc' = "call"
                     /\ domains' = ParseDomains(lines)
                     /\ batch_operation' = op
           ELSE /\ ui' = "none"
                /\ pc' = "end"
                /\ domains' = <<>>
                /\ batch_operation' = "WHOIS Lookup"
        /\ UNCHANGED secrets

current_domain_first(ds, i) == ds[1]

\* for idx, domain in enumerate(domains)
current_domain(ds, i) == ds[i + 1]

\* The request the selected batch operation sends for one domain.
batch_request(op, domain, key) ==
    CASE op = "WHOIS Lookup" -> whois_request(domain, key)
      [] op = "DNS Lookup" -> nslookup_request(domain, key, None)
      [] OTHER -> ssl_request(domain, key)

\* The helper is entered and its GET is sent.
BatchCall ==
    /\ pc = "call"
    /\ sent' = Append(sent, batch_request(batch_operation,
                                          current_domain(domains, idx), api_key))
    /\ pc' = "await"
    /\ record_type' = None
    /\ UNCHANGED <<secrets, cache, api_key, ui, domains, batch_operation, idx,
                   results, status, progress, outcomes, processed,
                   successful, failed>>

store_result_first_wins(res, domain, value) ==
    [d \in DOMAIN res \cup {domain} |->
        IF d \in DOMAIN res THEN res[d] ELSE value]

\* results[domain] = value
store_result(res, domain, value) ==
    [d \in DOMAIN res \cup {domain} |-> IF d = domain THEN value ELSE res[d]]

http_error_message_no_code(code, text) == HTTP_ \o <<":", " ">> \o text

\* f"HTTP {e.response.status_code}: {e.response.text}"
http_error_message(code, text) == HTTP_ \o IntStr(code) \o <<":", " ">> \o text

\* {"error": message}
ErrorEntry(message) == JsonDict({"error"}, message)

Recorded(resp) ==
    CASE resp.kind = "ok" -> resp.payload
      [] resp.kind = "http" -> ErrorEntry(http_error_message(resp.code, resp.text))
      [] OTHER -> ErrorEntry(resp.text)

\* One line of the status container.
StatusLine(ok, domain, detail) == [ok |-> ok, domain |-> domain, detail |-> detail]

BatchRecord(resp, line) ==
    /\ pc = "await"
    /\ results' = store_result(results, current_domain(domains, idx), Recorded(resp))
    /\ status' = Append(status, line)
    /\ outcomes' = Append(outcomes, resp)
    /\ pc' = "progress"
    /\ UNCHANGED <<secrets, cache, api_key, ui, sent, record_type, domains, batch_operation,
                   idx, progress, processed, successful, failed>>

\* The helper returns the parsed body.
BatchSuccess ==
    \E p \in Payloads :
        BatchRecord(RespOk(p), StatusLine(TRUE, current_domain(domains, idx), <<>>))

\* raise_for_status() raises requests.exceptions.HTTPError.
BatchHTTPError ==
    \E resp \in {r \in Responses : r.kind = "http"} :
        BatchRecord(resp, StatusLine(FALSE, current_domain(domains, idx),
                                     HTTP_ \o IntStr(resp.code)))

\* Any other exception of the helper.
BatchException ==
    \E resp \in {r \in Responses : r.kind = "exc"} :
        BatchRecord(resp, StatusLine(FALSE, current_domain(domains, idx), resp.text))

progress_value_before(i, n) == <<i, n>>

\* (idx + 1) / len(domains), as numerator and denominator.
progress_value(i, n) == <<i + 1, n>>

\* progress_bar.progress(...) and the step of the for loop.
BatchProgress ==
    /\ pc = "progress"
    /\ progress' = Append(progress, progress_value(idx, Len(domains)))
    /\ idx' = idx + 1
    /\ pc' = IF idx + 1 < Len(domains) THEN "call" ELSE "summary"
    /\ UNCHANGED <<secrets, cache, api_key, ui, sent, record_type, domains, batch_operation,
                   results, status, outcomes, processed, successful, failed>>

\* Values on which `"error" not in r` raises TypeError.
NotIterable(r) == r.kind \notin {"dict", "list", "str"}

\* "error" in r
ContainsError(r) ==
    CASE r.kind = "dict" -> "error" \in r.keys
      [] r.kind = "list" -> "error" \in r.items
      [] OTHER -> IsSubstring(ERROR, r.text)

\* sum(1 for r in results.values() if "error" not in r)
successful_count(res) ==
    Cardinality({d \in DOMAIN res : ~ContainsError(res[d])})

failed_count_of_keys(ds, res, succ) == Cardinality(DOMAIN res) - succ

\* len(domains) - successful
failed_count(ds, res, succ) == Len(ds) - succ

\* The completion message and the summary metrics.
BatchSummary ==
    /\ pc = "summary"
    /\ processed' = Len(domains)
    /\ IF \E d \in DOMAIN results : NotIterable(results[d])
       THEN /\ pc' = "crashed"
            /\ UNCHANGED <<successful, failed>>
       ELSE /\ pc' = "done"
            /\ successful' = successful_count(results)
            /\ failed' = failed_count(domains, results, successful_count(results))
    /\ UNCHANGED <<secrets, cache, api_key, ui, sent, record_type, domains, batch_operation,
                   idx, results, status, progress, outcomes>>

\* Streamlit runs the script again from the top: every local of main() is
\* fresh, the st.cache_resource slot is kept.
Rerun ==
    /\ pc \in Terminal
    /\ pc' = "start"
    /\ api_key' = None
    /\ ui' = "none"
    /\ sent' = <<>>
    /\ record_type' = None
    /\ NoBatch
    /\ UNCHANGED <<secrets, cache>>

Next ==
    \/ Rerun
    \/ MainNoKey
    \/ WhoisLookup
    \/ DnsLookup
    \/ SslCheck
    \/ BatchStart
    \/ BatchCall
    \/ BatchSuccess
    \/ BatchHTTPError
    \/ BatchException
    \/ BatchProgress
    \/ BatchSummary

Spec == Init /\ [][Next]_vars

----------------------------------------------------------------------------
\* Properties

BatchRunning == pc \in {"call", "await", "progress"}
BatchOver == pc \in {"summary", "done", "crashed"}

\* Positions whose client call returned (did not raise).
OkVisits == {k \in 1..Len(outcomes) : outcomes[k].kind = "ok"}

\* The last position of domain d in the list ds.
LastIndex(ds, d) ==
    CHOOSE k \in 1..Len(ds) :
        ds[k] = d /\ \A j \in (k + 1)..Len(ds) : ds[j] # d

Range(f) == {f[k] : k \in DOMAIN f}

BatchUrl ==
    CASE batch_operation = "WHOIS Lookup" -> "/api/v1/whois"
      [] batch_operation = "DNS Lookup" -> "/api/v1/nslookup"
      [] OTHER -> "/api/v1/ssl"

\* C1: once the loop of a batch is over, every position of the domain list
\* has been visited exactly once (one request, one status line, one client
\* outcome per position, duplicates included), and the metrics the summary
\* shows satisfy successful + failed = len(domains) with both >= 0.
C1_VisitsAndCounts ==
    /\ BatchOver =>
        /\ Len(domains) >= 1
        /\ Len(sent) = Len(domains)
        /\ Len(status) = Len(domains)
        /\ Len(outcomes) = Len(domains)
    /\ pc = "done" =>
        /\ successful + failed = Len(domains)
        /\ successful >= 0
        /\ failed >= 0

\* A DNS batch over a list with a repeated domain and mixed outcomes is done.
C1_Witness ==
    /\ pc = "done"
    /\ batch_operation = "DNS Lookup"
    /\ Len(domains) = 3
    /\ domains[1] = domains[3]
    /\ OkVisits # {}
    /\ OkVisits # 1..Len(outcomes)

\* C2: when the client call returns at every position, the summary shows
\* failed = 0 and no entry of results is classified as an error.
C2_AllSuccessNoFailure ==
    (pc = "done" /\ OkVisits = 1..Len(outcomes)) =>
        /\ failed = 0
        /\ \A d \in DOMAIN results : ~ContainsError(results[d])

\* C3: the summary's successful is the number of positions whose call
\* returned, and failed the number of positions whose call raised.
C3_CountsMatchVisits ==
    pc = "done" =>
        /\ successful = Cardinality(OkVisits)
        /\ failed = Len(outcomes) - Cardinality(OkVisits)

\* C4: no exception leaves the batch: a raised call is recorded as that
\* domain's error entry and the run never ends in an uncaught exception.
C4_NoExceptionEscapes ==
    /\ pc # "crashed"
    /\ (pc = "progress" /\ outcomes[idx + 1].kind # "ok") =>
        /\ results[domains[idx + 1]].kind = "dict"
        /\ "error" \in results[domains[idx + 1]].keys

HTTP_503 == <<"H", "T", "T", "P", " ", "5", "0", "3", ":", " ">>

\* C5: when every position fails with HTTP 503 and body "unavailable", the
\* summary is reached, it shows successful = 0 and failed = len(domains),
\* and every entry of results is an error entry whose message starts with
\* "HTTP 503: " and ends with the body text.
C5_AllHttp503 ==
    (BatchOver /\ \A k \in 1..Len(outcomes) : outcomes[k] = RespHttp(503, UNAVAILABLE)) =>
        /\ pc # "crashed"
        /\ pc = "done" => (successful = 0 /\ failed = Len(domains))
        /\ \A d \in DOMAIN results :
            /\ results[d].kind = "dict"
            /\ results[d].keys = {"error"}
            /\ results[d].text = HTTP_503 \o UNAVAILABLE

\* A batch over two distinct domains, all failing with HTTP 503, is done.
C5_Witness ==
    /\ pc = "done"
    /\ Len(domains) = 3
    /\ Cardinality(Range(domains)) = 2
    /\ \A k \in 1..Len(outcomes) : outcomes[k] = RespHttp(503, UNAVAILABLE)

\* C6: once the loop is over, the keys of results are exactly the distinct
\* domains of the list, each key holds what the last position of that domain
\* produced, every position has its status line, and the completion message
\* names len(domains); ["a.com", "b.com", "a.com"] gives 2 keys, 3 visits.
C6_KeysAndLastWrite ==
    /\ BatchOver =>
        /\ DOMAIN results = Range(domains)
        /\ Len(status) = Len(domains)
        /\ \A d \in DOMAIN results :
            LET last == outcomes[LastIndex(domains, d)]
            IN  IF last.kind = "ok"
                THEN results[d] = last.payload
                ELSE /\ results[d].keys = {"error"}
                     /\ IsSuffix(last.text, results[d].text)
        /\ domains = <<"a.com", "b.com", "a.com">> =>
            (Cardinality(DOMAIN results) = 2 /\ Len(status) = 3)
    /\ pc \in {"done", "crashed"} => processed = Len(domains)

\* The batch over ["a.com", "b.com", "a.com"] is done, and the two visits of
\* a.com ended differently.
C6_Witness ==
    /\ pc = "done"
    /\ domains = <<"a.com", "b.com", "a.com">>
    /\ outcomes[1].kind # outcomes[3].kind
    /\ processed = 3

\* C7: every nslookup request carries `domain`, and carries `type` exactly
\* when a record type other than "All Records" was given, with that value.
C7_DnsTypeParam ==
    \A k \in 1..Len(sent) :
        sent[k].url = "/api/v1/nslookup" =>
            LET params == sent[k].params
            IN  /\ "domain" \in DOMAIN params
                /\ DOMAIN params \subseteq {"domain", "type"}
                /\ "type" \in DOMAIN params <=>
                       (record_type \notin {None, "", "All Records"})
                /\ "type" \in DOMAIN params => params["type"] = record_type

\* A DNS lookup for record type MX was sent with type=MX.
C7_Witness ==
    /\ record_type = "MX"
    /\ Len(sent) = 1
    /\ sent[1].url = "/api/v1/nslookup"
    /\ DOMAIN sent[1].params = {"domain", "type"}
    /\ sent[1].params["type"] = "MX"

\* C8: with no API key configured (missing or empty) no request is ever
\* sent and the run goes no further than the missing-key message; every
\* request that is sent carries a non-empty key.
C8_NoCallWithoutKey ==
    /\ secrets \in {Missing, ""} => (sent = <<>> /\ pc \in {"start", "stopped"})
    /\ \A k \in 1..Len(sent) : Truthy(sent[k].auth[2])

\* A run with an empty key configured stopped at the missing-key message.
C8_Witness ==
    /\ secrets = ""
    /\ pc = "stopped"
    /\ ui = "no_key"

\* C9: the k-th request of a batch is the selected operation's request for
\* the k-th domain; a request is sent only when every earlier position has
\* its outcome recorded; positions are neither repeated nor skipped; and the
\* loop is left exactly when the last position is done.
C9_SequentialInOrder ==
    (BatchRunning \/ BatchOver) =>
        /\ Len(status) = Len(outcomes)
        /\ Len(sent) = IF pc \in {"await", "progress"} THEN idx + 1 ELSE idx
        /\ Len(status) = IF pc = "progress" THEN idx + 1 ELSE idx
        /\ \A k \in 1..Len(sent) :
            /\ sent[k].url = BatchUrl
            /\ sent[k].params["domain"] = domains[k]
        /\ \A k \in 1..Len(status) : status[k].domain = domains[k]
        /\ BatchRunning => idx < Len(domains)
        /\ BatchOver => idx = Len(domains)

\* The third request of an SSL batch over three domains is in flight.
C9_Witness ==
    /\ pc = "await"
    /\ batch_operation = "SSL Certificate Check"
    /\ Len(domains) = 3
    /\ idx = 2
    /\ domains[1] # domains[2]

\* Progress values as fractions <<numerator, denominator>>.
FracLess(x, y) == x[1] * y[2] < y[1] * x[2]
FracIsOne(x) == x[1] = x[2]

ProgressInv ==
    (BatchRunning \/ BatchOver) =>
        /\ Len(progress) = idx
        /\ Len(progress) = IF pc = "progress" THEN Len(status) - 1 ELSE Len(status)
        /\ \A k \in 1..Len(progress) : progress[k] = <<k, Len(domains)>>
        /\ \A k \in 1..(Len(progress) - 1) : FracLess(progress[k], progress[k + 1])
        /\ Cardinality({k \in 1..Len(progress) : FracIsOne(progress[k])})
               = IF BatchOver THEN 1 ELSE 0
        /\ \A k \in 1..Len(progress) :
               FracIsOne(progress[k]) => Len(outcomes) = Len(domains)

ProgressStep ==
    pc = "progress" =>
        /\ Len(progress') = Len(progress) + 1
        /\ results' = results
        /\ status' = status
        /\ sent' = sent
        /\ domains' = domains
        /\ idx' = idx + 1
        /\ pc' = IF idx + 1 < Len(domains) THEN "call" ELSE "summary"

\* C10: one progress value follows each visited position, success or
\* failure alike; the k-th value is k/len(domains); the values increase
\* strictly; the value 1 appears once, after the last outcome is recorded;
\* and the step that emits a value changes neither the results nor the
\* course of the loop.
C10_Progress == []ProgressInv /\ [][ProgressStep]_vars

\* A batch of three positions is done with a failure among them and three
\* progress values emitted.
C10_Witness ==
    /\ pc = "done"
    /\ Len(progress) = 3
    /\ OkVisits # 1..Len(outcomes)
    /\ OkVisits # {}

====
